---------------------------- MODULE Spec2Model ----------------------------
(***************************************************************************)
(* A model of levtrie: a trie from strings to strings (Get, Set, Delete)   *)
(* with searches bounded by Levenshtein distance, which simulate a         *)
(* Levenshtein NFA in parallel with the trie traversal.                    *)
(*                                                                         *)
(* Strings are sequences of bytes, runes are integers, a node is a record  *)
(* [child, data] whose child map is a function from runes to nodes.        *)
(* Arrays keep the 0-based indexes of the source (functions on 0..n-1).    *)
(***************************************************************************)
EXTENDS Integers, Sequences, FiniteSets, TLC

VARIABLES root, ref, last, prev

vars == <<root, ref, last, prev>>

(***************************************************************************)
(* Bounds of the model.                                                    *)
(***************************************************************************)
MaxKeyLen == 2

MaxKeys == 3

MaxQueryLen == 2

MaxD == 2

MaxLimit == 3

MaxPrefix == 3

MaxWordLen == 3

(***************************************************************************)
(* Strings and runes.  The alphabet holds a one-byte rune ('a') and a      *)
(* two-byte rune (U+00E9), so a count of runes differs from a count of     *)
(* bytes.                                                                  *)
(***************************************************************************)
Alphabet == {97, 233}

\* int8(x): conversion to a signed 8-bit integer wraps.
Int8(x) == ((x + 128) % 256) - 128

\* string(rune), for the runes of one or two bytes.
EncodeRune(r) == IF r < 128 THEN <<r>> ELSE <<192 + (r \div 64), 128 + (r % 64)>>

RECURSIVE EncodeRunes(_)
EncodeRunes(rs) ==
    IF rs = <<>> THEN <<>> ELSE EncodeRune(Head(rs)) \o EncodeRunes(Tail(rs))

\* utf8.DecodeRuneInString on the forms of one and two bytes: the rune and
\* its width; an invalid or cut encoding is utf8.RuneError (U+FFFD) of width 1.
DecodeRuneInString(s) ==
    IF s[1] < 128 THEN [r |-> s[1], w |-> 1]
    ELSE IF /\ s[1] >= 194 /\ s[1] <= 223 /\ Len(s) >= 2
            /\ s[2] >= 128 /\ s[2] <= 191
         THEN [r |-> (s[1] - 192) * 64 + (s[2] - 128), w |-> 2]
         ELSE [r |-> 65533, w |-> 1]

RECURSIVE extractRunes(_)
extractRunes(s) ==
    IF Len(s) = 0 THEN <<>>
    ELSE LET x == DecodeRuneInString(s)
         IN  <<x.r>> \o extractRunes(SubSeq(s, x.w + 1, Len(s)))

RECURSIVE SeqsUpTo(_, _)
SeqsUpTo(S, n) ==
    IF n = 0 THEN {<<>>}
    ELSE LET shorter == SeqsUpTo(S, n - 1)
         IN  shorter \cup {Append(x, r) : x \in shorter, r \in S}

\* The strings handed to the operations: the valid encodings of short
\* rune sequences.
Keys == {EncodeRunes(rs) : rs \in SeqsUpTo(Alphabet, MaxKeyLen)}

Queries == {EncodeRunes(rs) : rs \in SeqsUpTo(Alphabet, MaxQueryLen)}

\* The values stored by the map operations: "" and "v".
Values == {<<>>, <<118>>}

(***************************************************************************)
(* The trie.                                                               *)
(***************************************************************************)
NoData == [Nil |-> TRUE]

EmptyMap == [r \in {} |-> NoData]

\* &node{child: make(map[rune]*node)}
NewNode == [child |-> EmptyMap, data |-> NoData]

New == NewNode

MapDelete(m, r) == [x \in (DOMAIN m) \ {r} |-> m[x]]

MapPut(m, r, n) == [x \in (DOMAIN m) \cup {r} |-> IF x = r THEN n ELSE m[x]]

RECURSIVE GetNode(_, _)
GetNode(n, rs) ==
    IF rs = <<>>
    THEN IF n.data # NoData THEN [Value |-> n.data.Value, ok |-> TRUE]
         ELSE [Value |-> <<>>, ok |-> FALSE]
    ELSE IF Head(rs) \in DOMAIN n.child
         THEN GetNode(n.child[Head(rs)], Tail(rs))
         ELSE [Value |-> <<>>, ok |-> FALSE]

Get(t, key) == GetNode(t, extractRunes(key))

\* A Set that installs a new node on every step of the descent, also where
\* a child exists.
RECURSIVE SetNodeNoReuse(_, _, _, _)
SetNodeNoReuse(n, rs, key, val) ==
    IF rs = <<>>
    THEN [n EXCEPT !.data = [Key |-> key, Value |-> val]]
    ELSE [n EXCEPT !.child =
             MapPut(n.child, Head(rs), SetNodeNoReuse(NewNode, Tail(rs), key, val))]

RECURSIVE SetNode(_, _, _, _)
SetNode(n, rs, key, val) ==
    IF rs = <<>>
    THEN [n EXCEPT !.data = [Key |-> key, Value |-> val]]
    ELSE LET r == Head(rs)
             x == IF r \in DOMAIN n.child THEN n.child[r] ELSE NewNode
         IN  [n EXCEPT !.child = MapPut(n.child, r, SetNode(x, Tail(rs), key, val))]

Set(t, key, val) == SetNode(t, extractRunes(key), key, val)


\* The descent of Delete over the runes rs[i+1..]: n is the node reached by
\* the first i runes, cut the number of runes that lead to cnode (-1 while
\* cnode is nil; crune is then rs[cut+1]).  ok is false when an edge is
\* missing; leaf tells whether the node of the key has no children.
RECURSIVE DeleteDescend(_, _, _, _)
DeleteDescend(n, rs, i, cut) ==
    IF i = Len(rs)
    THEN [ok |-> TRUE, cut |-> cut, leaf |-> Cardinality(DOMAIN n.child) = 0]
    ELSE LET r == rs[i + 1]
             c == IF Cardinality(DOMAIN n.child) > 1 \/ cut = -1 THEN i ELSE cut
         IN  IF r \in DOMAIN n.child
             THEN DeleteDescend(n.child[r], rs, i + 1, c)
             ELSE [ok |-> FALSE, cut |-> c, leaf |-> FALSE]

\* A Delete that leaves the entry in place.
ClearDataNot(n, rs) == n

\* n.data = nil at the node reached by rs.
RECURSIVE ClearData(_, _)
ClearData(n, rs) ==
    IF rs = <<>> THEN [n EXCEPT !.data = NoData]
    ELSE [n EXCEPT !.child[Head(rs)] = ClearData(n.child[Head(rs)], Tail(rs))]

\* A Delete without path cleanup: the edge stays.
DeleteEdgeKeep(n, rs, crune) == n

\* delete(cnode.child, crune) at the node cnode reached by rs.
RECURSIVE DeleteEdge(_, _, _)
DeleteEdge(n, rs, crune) ==
    IF rs = <<>> THEN [n EXCEPT !.child = MapDelete(n.child, crune)]
    ELSE [n EXCEPT !.child[Head(rs)] = DeleteEdge(n.child[Head(rs)], Tail(rs), crune)]

\* Delete: the trie it leaves and whether it panics.  With cnode still nil
\* (the empty key) and no children at the root, delete(cnode.child, crune)
\* dereferences nil, after n.data = nil was done.
Delete(t, key) ==
    LET rs == extractRunes(key)
        w  == DeleteDescend(t, rs, 0, -1)
    IN  IF ~w.ok THEN [root |-> t, panic |-> FALSE]
        ELSE LET t1 == ClearData(t, rs)
             IN  IF ~w.leaf THEN [root |-> t1, panic |-> FALSE]
                 ELSE IF w.cut = -1 THEN [root |-> t1, panic |-> TRUE]
                 ELSE [root  |-> DeleteEdge(t1, SubSeq(rs, 1, w.cut), rs[w.cut + 1]),
                       panic |-> FALSE]

\* The entries stored in the sub-trie of n.
RECURSIVE Entries(_)
Entries(n) ==
    (IF n.data # NoData THEN {n.data} ELSE {})
        \cup UNION {Entries(n.child[r]) : r \in DOMAIN n.child}

StoredKeys(t) == {e.Key : e \in Entries(t)}

(***************************************************************************)
(* The Levenshtein NFA.  A state is [offset, arr]; arr and jump hold int8s, *)
(* and int8 arithmetic wraps.                                              *)
(***************************************************************************)
\* make([]int8, 2*d+1) panics when the int8 2*d+1 is negative.
newStatePanics(d) == Int8(Int8(2 * d) + 1) < 0

newState(d, offset) ==
    [offset |-> offset,
     arr    |-> [i \in 0..(Int8(Int8(2 * d) + 1) - 1) |-> Int8(d + 1)]]

start(d) ==
    LET initial == newState(d, Int8(-2 * d))
    IN  [initial EXCEPT !.arr[Int8(2 * d)] = 0]

accepts(rs, d, s) ==
    \E i \in DOMAIN s.arr :
        LET dist == Int8(Len(rs) - s.offset - i)
        IN  dist <= d /\ dist >= s.arr[i]

\* The jump array a transition on r fills, from its last index down: next
\* starts at d+1, is 0 at an index where the query holds r, and is one more
\* (in int8) than at the index after it elsewhere.  As the int8 sums wrap,
\* jump[i] is the int8 of the number of steps since the last reset.
jumpArray(rs, d, s, r) ==
    LET last_i == 3 * d + 1
        hit(i) == LET x == s.offset + i
                  IN  x < Len(rs) /\ x >= 0 /\ rs[x + 1] = r
    IN  [i \in 0..last_i |->
            LET hits == {m \in i..last_i : hit(m)}
            IN  IF hits = {} THEN Int8(Int8(d + 1) + (last_i - i))
                ELSE Int8((CHOOSE m \in hits : \A y \in hits : m <= y) - i)]

\* The value the transition computes for diagonal j, before it is compared
\* with d+1.
transitionVal(d, s, jump, j) ==
    LET len == Cardinality(DOMAIN s.arr)
        cr  == Int8(s.arr[j] + jump[j + s.arr[j]])
        v1  == IF cr < Int8(d + 1) THEN cr ELSE Int8(d + 1)
        v2  == IF j < len - 1 /\ Int8(s.arr[j + 1] + 1) < v1
               THEN Int8(s.arr[j + 1] + 1) ELSE v1
        v3  == IF j < len - 2 /\ Int8(s.arr[j + 2] + 1) < v2
               THEN Int8(s.arr[j + 2] + 1) ELSE v2
    IN  v3

MinOf(S) == CHOOSE x \in S : \A y \in S : x <= y

\* n.jump[j+int(s.arr[j])] panics when the index is out of range, which a
\* cell that has wrapped below zero brings about.
transitionPanics(d, s) ==
    \E j \in DOMAIN s.arr : j + s.arr[j] \notin 0..(3 * d + 1)

\* The second loop of transition, over the jump array the first has
\* filled: the new state and the minimum of its cells.
transitionFrom(d, s, jump) ==
    LET ns   == newState(d, s.offset + 1)
        val  == [j \in DOMAIN ns.arr |-> transitionVal(d, s, jump, j)]
    IN  [s   |-> [ns EXCEPT !.arr = [j \in DOMAIN ns.arr |->
                        IF val[j] < Int8(d + 1) THEN val[j] ELSE ns.arr[j]]],
         min |-> MinOf({Int8(d + 1)} \cup {val[j] : j \in DOMAIN ns.arr})]

\* transition: the new state and the minimum of its cells.
transition(rs, d, s, r) == transitionFrom(d, s, jumpArray(rs, d, s, r))

(***************************************************************************)
(* The traversal.  A frame is [n, s, path]: path, the runes from the root   *)
(* of the trie to n, is kept only to look up the order in which a range    *)
(* over n.child enumerates it.  Go leaves that order unspecified: order    *)
(* maps the path of each node with several children to an enumeration of   *)
(* them, and every such map is a possible run.                             *)
(***************************************************************************)
Perms(S) == {q \in [1..Cardinality(S) -> S] : \A x \in S : \E i \in DOMAIN q : q[i] = x}

\* The nodes with several children: <<path, runes of the children>>.
RECURSIVE ChildSets(_, _)
ChildSets(n, path) ==
    (IF Cardinality(DOMAIN n.child) > 1 THEN {<<path, DOMAIN n.child>>} ELSE {})
        \cup UNION {ChildSets(n.child[r], Append(path, r)) : r \in DOMAIN n.child}

\* The enumeration orders of the trie t.
Orders(t) ==
    LET cs   == ChildSets(t, <<>>)
        P    == {c[1] : c \in cs}
        kids == [path \in P |-> (CHOOSE c \in cs : c[1] = path)[2]]
    IN  {o \in [P -> UNION {Perms(kids[x]) : x \in P}] :
            \A x \in P : o[x] \in Perms(kids[x])}

\* for r, node := range n.child
rangeChild(n, path, order) ==
    IF path \in DOMAIN order THEN order[path]
    ELSE IF DOMAIN n.child = {} THEN <<>>
    ELSE <<CHOOSE r \in DOMAIN n.child : TRUE>>

doNotExpandSuffixes(n, limit) ==
    [results |-> IF n.data # NoData THEN <<n.data>> ELSE <<>>, halt |-> FALSE]

RECURSIVE pushNodes(_, _, _, _)
pushNodes(stack, x, rng, k) ==
    IF k > Len(rng) THEN stack
    ELSE pushNodes(Append(stack, [n |-> x.n.child[rng[k]], path |-> Append(x.path, rng[k])]),
                   x, rng, k + 1)

RECURSIVE expandLoop(_, _, _, _)
expandLoop(stack, results, limit, order) ==
    IF Len(stack) = 0 THEN results
    ELSE LET x    == stack[Len(stack)]
             rest == SubSeq(stack, 1, Len(stack) - 1)
             res1 == IF x.n.data # NoData THEN Append(results, x.n.data) ELSE results
         IN  IF x.n.data # NoData /\ Len(res1) >= limit THEN res1
             ELSE expandLoop(pushNodes(rest, x, rangeChild(x.n, x.path, order), 1),
                             res1, limit, order)

expandSuffixes(n, limit, path, order) ==
    [results |-> expandLoop(<<[n |-> n, path |-> path]>>, <<>>, limit, order),
     halt    |-> TRUE]

\* An expansion that does not halt the traversal of the expanded node.
processNoHalt(policy, n, limit, path, order) ==
    IF policy = "expand"
    THEN [results |-> expandSuffixes(n, limit, path, order).results, halt |-> FALSE]
    ELSE doNotExpandSuffixes(n, limit)

process(policy, n, limit, path, order) ==
    IF policy = "expand" THEN expandSuffixes(n, limit, path, order)
    ELSE doNotExpandSuffixes(n, limit)

\* A registration of the children that keeps one stack, stacks[0], for
\* every minimum.
RECURSIVE pushChildrenOneStack(_, _, _, _, _, _)
pushChildrenOneStack(rs, d, stacks, f, rng, k) ==
    IF k > Len(rng) THEN [stacks |-> stacks, panic |-> FALSE]
    ELSE LET r  == rng[k]
             t  == transition(rs, d, f.s, r)
             fr == [n |-> f.n.child[r], s |-> t.s, path |-> Append(f.path, r)]
         IN  pushChildrenOneStack(rs, d,
                 IF t.min < Int8(d + 1)
                 THEN [stacks EXCEPT ![0] = Append(@, fr)] ELSE stacks,
                 f, rng, k + 1)

\* Register each of the children of f.n: those whose transition has a
\* minimum below d+1 are appended to stacks[min].  A minimum that is no
\* index of stacks makes stacks[min] panic.
RECURSIVE pushChildren(_, _, _, _, _, _)
pushChildren(rs, d, stacks, f, rng, k) ==
    IF k > Len(rng) THEN [stacks |-> stacks, panic |-> FALSE]
    ELSE LET r  == rng[k]
             t  == transition(rs, d, f.s, r)
             fr == [n |-> f.n.child[r], s |-> t.s, path |-> Append(f.path, r)]
         IN  IF \/ transitionPanics(d, f.s)
                \/ t.min < Int8(d + 1) /\ t.min \notin DOMAIN stacks
             THEN [stacks |-> stacks, panic |-> TRUE]
             ELSE pushChildren(rs, d,
                      IF t.min < Int8(d + 1)
                      THEN [stacks EXCEPT ![t.min] = Append(@, fr)] ELSE stacks,
                      f, rng, k + 1)

\* A return of the results as they are, not cut to the limit.
truncateNot(results, limit) == results

\* results[:limit]
truncate(results, limit) == SubSeq(results, 1, limit)

\* The loops of suggest over the stacks, from stacks[i] on: what is
\* returned, or a panic.
RECURSIVE suggestLoop(_, _, _, _, _, _, _, _)
suggestLoop(policy, rs, d, limit, order, stacks, results, i) ==
    IF i > d THEN [results |-> results, panic |-> FALSE]
    ELSE IF Len(stacks[i]) = 0
    THEN suggestLoop(policy, rs, d, limit, order, stacks, results, i + 1)
    ELSE LET f      == stacks[i][Len(stacks[i])]
             popped == [stacks EXCEPT ![i] = SubSeq(@, 1, Len(@) - 1)]
             acc    == accepts(rs, d, f.s)
             pr     == IF acc THEN process(policy, f.n, limit - Len(results), f.path, order)
                       ELSE [results |-> <<>>, halt |-> FALSE]
             res1   == results \o pr.results
             pushed == pushChildren(rs, d, popped, f, rangeChild(f.n, f.path, order), 1)
         IN  IF acc /\ Len(res1) >= limit
             THEN [results |-> truncate(res1, limit), panic |-> FALSE]
             ELSE IF acc /\ pr.halt
             THEN suggestLoop(policy, rs, d, limit, order, popped, res1, i)
             ELSE IF pushed.panic THEN [results |-> <<>>, panic |-> TRUE]
             ELSE suggestLoop(policy, rs, d, limit, order, pushed.stacks, res1, i)

\* suggest, from the node found at path: what it returns, or a panic (make
\* with a negative length in newState or for the stacks, or an index out of
\* range).
suggest(policy, node, runes, d, limit, path, order) ==
    IF newStatePanics(d) \/ Int8(d + 1) < 0
    THEN [results |-> <<>>, panic |-> TRUE]
    ELSE suggestLoop(policy, runes, d, limit, order,
             [i \in 0..d |-> IF i = 0
                             THEN <<[n |-> node, s |-> start(d), path |-> path]>>
                             ELSE <<>>],
             <<>>, 0)

Suggest(t, key, d, n, order) ==
    suggest("exact", t, extractRunes(key), d, n, <<>>, order)

SuggestSuffixes(t, key, d, n, order) ==
    suggest("expand", t, extractRunes(key), d, n, <<>>, order)

\* The descent of the exact prefix: the node reached, or none.
RECURSIVE descend(_, _)
descend(n, rs) ==
    IF rs = <<>> THEN [ok |-> TRUE, n |-> n]
    ELSE IF Head(rs) \in DOMAIN n.child THEN descend(n.child[Head(rs)], Tail(rs))
    ELSE [ok |-> FALSE, n |-> n]

\* The capacities the slice extractRunes returns may have: []rune{} has
\* capacity 0, and append leaves the capacity of a grown slice to the
\* implementation (no less than its length).
Caps(len) == IF len = 0 THEN {0} ELSE len..(2 * len)

\* runes[:p] for a slice of capacity c: it panics when p > c, and else
\* holds the runes followed by the zeroed cells beyond the length.
slicePanics(p, c) == p < 0 \/ p > c

sliceTo(runes, p) == [i \in 1..p |-> IF i <= Len(runes) THEN runes[i] ELSE 0]

\* The searches after an exact prefix, c being the capacity of runes: the
\* descent over runes[:p], then suggest on runes[p:], which panics when
\* p > len(runes).
afterExactPrefix(policy, t, key, p, d, n, order, c) ==
    LET runes == extractRunes(key)
        curr  == descend(t, sliceTo(runes, p))
    IN  IF slicePanics(p, c) THEN [results |-> <<>>, panic |-> TRUE]
        ELSE IF ~curr.ok THEN [results |-> <<>>, panic |-> FALSE]
        ELSE IF p > Len(runes) THEN [results |-> <<>>, panic |-> TRUE]
        ELSE suggest(policy, curr.n, SubSeq(runes, p + 1, Len(runes)), d, n,
                     SubSeq(runes, 1, p), order)

SuggestAfterExactPrefix(t, key, p, d, n, order, c) ==
    afterExactPrefix("exact", t, key, p, d, n, order, c)

SuggestSuffixesAfterExactPrefix(t, key, p, d, n, order, c) ==
    afterExactPrefix("expand", t, key, p, d, n, order, c)

(***************************************************************************)
(* The map operations as steps of a program that starts from New().  ref   *)
(* is the reference map under the same operations, last the operation just *)
(* done (with the trie before it and what it returned), prev the mutation  *)
(* done right before it.  A panic ends the program.                        *)
(***************************************************************************)
NoOp == [op |-> "New", key |-> <<>>, val |-> <<>>]

NotFound == [Value |-> <<>>, ok |-> FALSE]

Running == ~last.panic

\* What prev keeps of the operation before: a Set with its arguments.
PrevOf(l) == IF l.op = "Set" THEN [op |-> "Set", key |-> l.key, val |-> l.val] ELSE NoOp

InitMap ==
    /\ root = New
    /\ ref = EmptyMap
    /\ last = [op |-> "New", key |-> <<>>, val |-> <<>>, out |-> NotFound,
               panic |-> FALSE, pre |-> New]
    /\ prev = NoOp

DoSet(key, val) ==
    /\ Running
    /\ key \in StoredKeys(root) \/ Cardinality(StoredKeys(root)) < MaxKeys
    /\ root' = Set(root, key, val)
    /\ ref' = MapPut(ref, key, val)
    /\ last' = [op |-> "Set", key |-> key, val |-> val, out |-> NotFound,
                panic |-> FALSE, pre |-> root]
    /\ prev' = PrevOf(last)

DoDelete(key) ==
    /\ Running
    /\ LET x == Delete(root, key)
       IN  /\ root' = x.root
           /\ last' = [op |-> "Delete", key |-> key, val |-> <<>>, out |-> NotFound,
                       panic |-> x.panic, pre |-> root]
    /\ ref' = MapDelete(ref, key)
    /\ prev' = PrevOf(last)

DoGet(key) ==
    /\ Running
    /\ last' = [op |-> "Get", key |-> key, val |-> <<>>, out |-> Get(root, key),
                panic |-> FALSE, pre |-> root]
    /\ prev' = NoOp
    /\ UNCHANGED <<root, ref>>

NextMap ==
    \/ \E key \in Keys, val \in Values : DoSet(key, val)
    \/ \E key \in Keys : DoDelete(key)
    \/ \E key \in Keys : DoGet(key)

Spec == InitMap /\ [][NextMap]_vars

(***************************************************************************)
(* The searches as steps of a program that fills a trie from New() with    *)
(* Set and Delete and searches it, one call at a time.  last is the search *)
(* that has just returned, with its arguments and what it returned, until  *)
(* the caller drops it (Return).  A panic ends the program.                *)
(***************************************************************************)
\* The bounds d tried: the small ones, and the least d whose 2*d+1 does not
\* fit an int8.
Distances == (0..MaxD) \cup {64}

Limits == 0..MaxLimit

Idle == [op |-> "New", key |-> <<>>, p |-> 0, d |-> 0, limit |-> 0,
         out |-> <<>>, panic |-> FALSE]

InitSearch ==
    /\ root = New
    /\ ref = EmptyMap
    /\ last = Idle
    /\ prev = NoOp

Ready == last = Idle

\* The searched tries hold each key as its own value, as the tests build them.
SearchSet(key) ==
    /\ Ready
    /\ key \in StoredKeys(root) \/ Cardinality(StoredKeys(root)) < MaxKeys
    /\ root' = Set(root, key, key)
    /\ last' = Idle
    /\ UNCHANGED <<ref, prev>>

SearchDelete(key) ==
    /\ Ready
    /\ LET x == Delete(root, key)
       IN  /\ root' = x.root
           /\ last' = [Idle EXCEPT !.panic = x.panic]
    /\ UNCHANGED <<ref, prev>>

\* A search that leaves an empty trie behind.
SearchedEmptying(op, key, p, d, n, x) ==
    /\ last' = [op |-> op, key |-> key, p |-> p, d |-> d, limit |-> n,
                out |-> x.results, panic |-> x.panic]
    /\ root' = New
    /\ UNCHANGED <<ref, prev>>

\* A search has returned x (or panicked): the trie is as it was.
Searched(op, key, p, d, n, x) ==
    /\ last' = [op |-> op, key |-> key, p |-> p, d |-> d, limit |-> n,
                out |-> x.results, panic |-> x.panic]
    /\ UNCHANGED <<root, ref, prev>>

DoSuggest(key, d, n) ==
    /\ Ready
    /\ \E order \in Orders(root) :
          Searched("Suggest", key, 0, d, n, Suggest(root, key, d, n, order))

DoSuggestSuffixes(key, d, n) ==
    /\ Ready
    /\ \E order \in Orders(root) :
          Searched("SuggestSuffixes", key, 0, d, n,
                   SuggestSuffixes(root, key, d, n, order))

DoSuggestAfterExactPrefix(key, p, d, n) ==
    /\ Ready
    /\ \E order \in Orders(root), c \in Caps(Len(extractRunes(key))) :
          Searched("SuggestAfterExactPrefix", key, p, d, n,
                   SuggestAfterExactPrefix(root, key, p, d, n, order, c))

DoSuggestSuffixesAfterExactPrefix(key, p, d, n) ==
    /\ Ready
    /\ \E order \in Orders(root), c \in Caps(Len(extractRunes(key))) :
          Searched("SuggestSuffixesAfterExactPrefix", key, p, d, n,
                   SuggestSuffixesAfterExactPrefix(root, key, p, d, n, order, c))

\* A Get between the searches; out holds what it returned.
SearchGet(key) ==
    /\ Ready
    /\ last' = [op |-> "Get", key |-> key, p |-> 0, d |-> 0, limit |-> 0,
                out |-> Get(root, key), panic |-> FALSE]
    /\ UNCHANGED <<root, ref, prev>>

Return ==
    /\ Running
    /\ last # Idle
    /\ last' = Idle
    /\ UNCHANGED <<root, ref, prev>>

NextSearch ==
    \/ Return
    \/ \E key \in Keys : SearchSet(key)
    \/ \E key \in Keys : SearchDelete(key)
    \/ \E key \in Keys : SearchGet(key)
    \/ \E key \in Queries, d \in Distances, n \in Limits : DoSuggest(key, d, n)
    \/ \E key \in Queries, d \in Distances, n \in Limits : DoSuggestSuffixes(key, d, n)
    \/ \E key \in Queries, p \in 0..MaxPrefix, d \in Distances, n \in Limits :
          DoSuggestAfterExactPrefix(key, p, d, n)
    \/ \E key \in Queries, p \in 0..MaxPrefix, d \in Distances, n \in Limits :
          DoSuggestSuffixesAfterExactPrefix(key, p, d, n)

SpecSearch == InitSearch /\ [][NextSearch]_vars

(***************************************************************************)
(* The cycles of TestSetGetDeleteMixedOrder: the keys of a fixed set S are  *)
(* inserted in any order, each as its own value, then all deleted in any   *)
(* order, and the cycle starts again on the same trie.  prev holds S and   *)
(* the phase of the cycle, ref the keys inserted and not yet deleted.  A   *)
(* panic ends the program.                                                 *)
(***************************************************************************)
KeySets == {S \in SUBSET Keys : S # {} /\ Cardinality(S) <= MaxKeys}

InitCycle ==
    /\ root = New
    /\ ref = EmptyMap
    /\ last = [op |-> "New", key |-> <<>>, val |-> <<>>, out |-> NotFound,
               panic |-> FALSE, pre |-> New]
    /\ \E S \in KeySets : prev = [S |-> S, phase |-> "insert"]

CycleSet(key) ==
    /\ Running
    /\ prev.phase = "insert"
    /\ key \in prev.S \ DOMAIN ref
    /\ root' = Set(root, key, key)
    /\ ref' = MapPut(ref, key, key)
    /\ last' = [op |-> "Set", key |-> key, val |-> key, out |-> NotFound,
                panic |-> FALSE, pre |-> root]
    /\ prev' = [prev EXCEPT !.phase = IF DOMAIN ref' = prev.S THEN "delete" ELSE "insert"]

CycleDelete(key) ==
    /\ Running
    /\ prev.phase = "delete"
    /\ key \in DOMAIN ref
    /\ LET x == Delete(root, key)
       IN  /\ root' = x.root
           /\ last' = [op |-> "Delete", key |-> key, val |-> <<>>, out |-> NotFound,
                       panic |-> x.panic, pre |-> root]
    /\ ref' = MapDelete(ref, key)
    /\ prev' = [prev EXCEPT !.phase = IF ref' = EmptyMap THEN "insert" ELSE "delete"]

NextCycle ==
    \/ \E key \in Keys : CycleSet(key)
    \/ \E key \in Keys : CycleDelete(key)

SpecCycle == InitCycle /\ [][NextCycle]_vars

(***************************************************************************)
(* The NFA alone, as a traversal drives it along one path: start() for a   *)
(* query rs and a bound d, then one transition for each rune of a word w.  *)
(* last holds the query, the bound, the word read, the state reached, the  *)
(* minimum the last transition reported (min) and the least cell of the    *)
(* state before it (pmin).  A panic ends the run.                          *)
(***************************************************************************)
\* The bounds d tried: the small ones, the least d at which the int8 sums
\* of transition wrap, and the least d whose 2*d+1 does not fit an int8.
NfaDistances == (0..MaxD) \cup {32, 64}

NoState == [offset |-> 0, arr |-> <<>>]

\* The least length of a query whose remaining length, len(n.rs) - s.offset
\* - i, does not fit the int8 that accepts converts it to.
LongQueryLen == 256

\* The queries: the short ones, and one of LongQueryLen runes.
NfaQueries == SeqsUpTo(Alphabet, MaxQueryLen) \cup {[i \in 1..LongQueryLen |-> 97]}

InitNfa ==
    /\ root = New
    /\ ref = EmptyMap
    /\ prev = NoOp
    /\ \E rs \in NfaQueries, d \in NfaDistances :
          last = [op |-> "start", rs |-> rs, d |-> d, w |-> <<>>,
                  s |-> IF newStatePanics(d) THEN NoState ELSE start(d),
                  min |-> 0, pmin |-> 0, panic |-> newStatePanics(d)]

NfaTransition(r) ==
    /\ Running
    /\ Len(last.w) < MaxWordLen
    /\ last' = IF transitionPanics(last.d, last.s)
               THEN [last EXCEPT !.op = "transition", !.w = Append(@, r),
                                 !.panic = TRUE]
               ELSE LET t == transition(last.rs, last.d, last.s, r)
                    IN  [last EXCEPT !.op = "transition", !.w = Append(@, r),
                                     !.s = t.s, !.min = t.min,
                                     !.pmin = MinOf({last.s.arr[j] : j \in DOMAIN last.s.arr})]
    /\ UNCHANGED <<root, ref, prev>>

NextNfa == \E r \in Alphabet : NfaTransition(r)

SpecNfa == InitNfa /\ [][NextNfa]_vars

(***************************************************************************)
(* Two searches that run at once on one trie, which no Set or Delete        *)
(* touches meanwhile, as two requests of the typeahead server do.  Each     *)
(* runs suggest step by step: the allocations (start), one turn of the      *)
(* loop over the stacks (loop), and for each child of the popped frame the  *)
(* first loop of transition, which fills the jump array (fill), and the     *)
(* second, which reads it, followed by the push (use).  last maps each      *)
(* search to its call, its position and its locals.  The scheduler lets     *)
(* each search take its steps.                                              *)
(***************************************************************************)
Searchers == {1, 2}

RECURSIVE BuildTrie(_)
BuildTrie(S) ==
    IF S = {} THEN New
    ELSE LET k == CHOOSE x \in S : TRUE
         IN  Set(BuildTrie(S \ {k}), k, k)

\* The tries searched: those of up to MaxKeys - 1 keys.
TraversalTries == {BuildTrie(S) : S \in {T \in SUBSET Keys : Cardinality(T) < MaxKeys}}

\* The bounds d of the first search: 0, 1, and the least d whose 2*d+1
\* does not fit an int8.
TraversalDistances == {0, 1, 64}

\* The queries of the first search, as extractRunes returns them: the
\* short ones and the long one.
TraversalQueries == NfaQueries

NoFrame == [n |-> NewNode, s |-> NoState, path |-> <<>>]

\* A search that has not started, rs being the runes of its query.
Call(policy, rs, d, limit, order) ==
    [pc |-> "start", policy |-> policy, rs |-> rs,
     d |-> d, limit |-> limit, order |-> order,
     stacks |-> <<>>, i |-> 0, results |-> <<>>,
     f |-> NoFrame, rng |-> <<>>, k |-> 0, jump |-> <<>>, out |-> <<>>]

\* The search whose nfa holds the jump array that search id fills and
\* reads: its own, as suggest makes a new nfa on each call.
jumpOwnerShared(id) == 1

jumpOwner(id) == id

InitTraversal ==
    /\ root \in TraversalTries
    /\ ref = EmptyMap
    /\ prev = NoOp
    /\ \E policy \in {"exact", "expand"}, rs \in TraversalQueries,
          d \in TraversalDistances, limit \in {0, MaxLimit}, order \in Orders(root) :
          last = [id \in Searchers |->
                     IF id = 1 THEN Call(policy, rs, d, limit, order)
                     ELSE Call("exact", <<97>>, 1, MaxLimit,
                               CHOOSE o \in Orders(root) : TRUE)]

\* n := newNfa(runes, d); start := n.start(); stacks := make(...);
\* stacks[0] = []frame{...}
TraversalStart(id) ==
    /\ last[id].pc = "start"
    /\ LET me == last[id]
       IN  last' = [last EXCEPT ![id] =
               IF newStatePanics(me.d) \/ Int8(me.d + 1) < 0
               THEN [me EXCEPT !.pc = "panicked"]
               ELSE [me EXCEPT !.pc = "loop",
                               !.stacks = [i \in 0..me.d |->
                                   IF i = 0
                                   THEN <<[n |-> root, s |-> start(me.d), path |-> <<>>]>>
                                   ELSE <<>>]]]
    /\ UNCHANGED <<root, ref, prev>>

\* One turn of the loops over the stacks: return after the last stack,
\* pass to the next stack when stacks[i] is empty, else pop a frame and
\* process it if it accepts.
TraversalPop(id) ==
    /\ last[id].pc = "loop"
    /\ LET me     == last[id]
           f      == me.stacks[me.i][Len(me.stacks[me.i])]
           popped == [me.stacks EXCEPT ![me.i] = SubSeq(@, 1, Len(@) - 1)]
           acc    == accepts(me.rs, me.d, f.s)
           pr     == IF acc
                     THEN process(me.policy, f.n, me.limit - Len(me.results),
                                  f.path, me.order)
                     ELSE [results |-> <<>>, halt |-> FALSE]
           res1   == me.results \o pr.results
       IN  last' = [last EXCEPT ![id] =
               IF me.i > me.d
               THEN [me EXCEPT !.pc = "returned", !.out = me.results,
                               !.stacks = <<>>, !.results = <<>>]
               ELSE IF Len(me.stacks[me.i]) = 0
               THEN [me EXCEPT !.i = me.i + 1]
               ELSE IF acc /\ Len(res1) >= me.limit
               THEN [me EXCEPT !.pc = "returned", !.out = truncate(res1, me.limit),
                               !.stacks = <<>>, !.results = <<>>]
               ELSE IF acc /\ pr.halt
               THEN [me EXCEPT !.stacks = popped, !.results = res1]
               ELSE [me EXCEPT !.pc = "fill", !.stacks = popped, !.results = res1,
                               !.f = f, !.k = 1,
                               !.rng = rangeChild(f.n, f.path, me.order)]]
    /\ UNCHANGED <<root, ref, prev>>

\* The next child of the popped frame, if any: the first loop of
\* transition fills the jump array.
TransitionFill(id) ==
    /\ last[id].pc = "fill"
    /\ LET me == last[id]
       IN  IF me.k > Len(me.rng)
           THEN last' = [last EXCEPT ![id] =
                            [me EXCEPT !.pc = "loop", !.f = NoFrame, !.rng = <<>>, !.k = 0]]
           ELSE LET filled == [last EXCEPT ![jumpOwner(id)].jump =
                                   jumpArray(me.rs, me.d, me.f.s, me.rng[me.k])]
                IN  last' = [filled EXCEPT ![id].pc = "use"]
    /\ UNCHANGED <<root, ref, prev>>

\* The second loop of transition reads the jump array, and the frame of
\* the child is pushed if its minimum is below d+1.
TransitionUse(id) ==
    /\ last[id].pc = "use"
    /\ LET me   == last[id]
           jump == last[jumpOwner(id)].jump
           r    == me.rng[me.k]
           t    == transitionFrom(me.d, me.f.s, jump)
           fr   == [n |-> me.f.n.child[r], s |-> t.s, path |-> Append(me.f.path, r)]
           done == [last EXCEPT ![jumpOwner(id)].jump = <<>>]
       IN  last' = [done EXCEPT ![id] =
               IF \E j \in DOMAIN me.f.s.arr : j + me.f.s.arr[j] \notin DOMAIN jump
               THEN [done[id] EXCEPT !.pc = "panicked"]
               ELSE IF t.min < Int8(me.d + 1) /\ t.min \notin DOMAIN me.stacks
               THEN [done[id] EXCEPT !.pc = "panicked"]
               ELSE [done[id] EXCEPT !.pc = "fill", !.k = me.k + 1,
                                     !.stacks = IF t.min < Int8(me.d + 1)
                                                THEN [me.stacks EXCEPT ![t.min] = Append(@, fr)]
                                                ELSE me.stacks]]
    /\ UNCHANGED <<root, ref, prev>>

SearchStep(id) ==
    \/ TraversalStart(id)
    \/ TraversalPop(id)
    \/ TransitionFill(id)
    \/ TransitionUse(id)

NextTraversal == \E id \in Searchers : SearchStep(id)

SpecTraversal ==
    /\ InitTraversal
    /\ [][NextTraversal]_vars
    /\ \A id \in Searchers : WF_vars(SearchStep(id))

\* One search alone: the second has returned before the first starts.
InitOneSearch ==
    /\ root \in TraversalTries
    /\ ref = EmptyMap
    /\ prev = NoOp
    /\ \E policy \in {"exact", "expand"}, rs \in TraversalQueries,
          d \in TraversalDistances, limit \in {0, MaxLimit}, order \in Orders(root) :
          last = [id \in Searchers |->
                     IF id = 1 THEN Call(policy, rs, d, limit, order)
                     ELSE [Call("exact", <<97>>, 1, MaxLimit,
                                CHOOSE o \in Orders(root) : TRUE)
                              EXCEPT !.pc = "returned"]]

SpecOneSearch ==
    /\ InitOneSearch
    /\ [][NextTraversal]_vars
    /\ WF_vars(SearchStep(1))

(***************************************************************************)
(* The reference the searches are compared with.                           *)
(***************************************************************************)
\* The edit distance of the tests (insert, delete, substitute), on runes.
RECURSIVE editDistanceHelper(_, _)
editDistanceHelper(s, t) ==
    IF Len(s) = 0 THEN Int8(Len(t))
    ELSE IF Len(t) = 0 THEN Int8(Len(s))
    ELSE IF s[Len(s)] = t[Len(t)]
    THEN editDistanceHelper(SubSeq(s, 1, Len(s) - 1), SubSeq(t, 1, Len(t) - 1))
    ELSE LET x == editDistanceHelper(s, SubSeq(t, 1, Len(t) - 1))
             y == editDistanceHelper(SubSeq(s, 1, Len(s) - 1), t)
             z == editDistanceHelper(SubSeq(s, 1, Len(s) - 1), SubSeq(t, 1, Len(t) - 1))
         IN  Int8(1 + MinOf({x, y, z}))

editDistance(s, t) == editDistanceHelper(extractRunes(s), extractRunes(t))

\* The map the trie is observed to hold through Get.
Stored(t) == {[Key |-> k, Value |-> Get(t, k).Value] : k \in {x \in Keys : Get(t, x).ok}}

Range(q) == {q[i] : i \in DOMAIN q}

Prefixes(rs) == {SubSeq(rs, 1, n) : n \in 0..Len(rs)}

IsPrefix(x, y) == Len(x) <= Len(y) /\ SubSeq(y, 1, Len(x)) = x

\* The least edit distance from the key to a prefix of the query.
prefixDistance(key, query) ==
    MinOf({editDistanceHelper(extractRunes(key), x) : x \in Prefixes(extractRunes(query))})

SearchOps == {"Suggest", "SuggestSuffixes", "SuggestAfterExactPrefix",
              "SuggestSuffixesAfterExactPrefix"}

(***************************************************************************)
(* The claims.                                                             *)
(***************************************************************************)
\* What Suggest is to return when the limit is no less than the number of
\* stored keys: the stored entries within distance d of the query.
SuggestExpected(t, key, d) == {e \in Stored(t) : editDistance(e.Key, key) <= d}

\* C1: for every stored set, query, bound d >= 0 and limit >= |S|, Suggest
\* returns, as a set, exactly the stored entries whose key is within edit
\* distance d of the query.
C1_SuggestReturnsExactlyTheMatches ==
    (last.op = "Suggest" /\ last.limit >= Cardinality(Stored(root)))
        => /\ ~last.panic
           /\ Range(last.out) = SuggestExpected(root, last.key, last.d)

\* The same for the small bounds d alone.
SuggestExactForSmallD ==
    (last.op = "Suggest" /\ last.limit >= Cardinality(Stored(root)) /\ last.d <= MaxD)
        => /\ ~last.panic
           /\ Range(last.out) = SuggestExpected(root, last.key, last.d)

RefGet(m, k) == IF k \in DOMAIN m THEN [Value |-> m[k], ok |-> TRUE] ELSE NotFound

\* C2: after any sequence of Set and Delete calls from New(), Get(k)
\* returns for every key k what the reference map returns.
C2_GetAgreesWithReferenceMap ==
    \A k \in Keys : Get(root, k) = RefGet(ref, k)

\* C3: Delete(k) removes only k: Get(k') returns the same before and after
\* for every other key k', a stored proper prefix of k included.
C3_DeleteLeavesOtherKeys ==
    last.op = "Delete"
        => \A k \in Keys \ {last.key} : Get(root, k) = Get(last.pre, k)

\* C4: after Set(k1, v1) followed by Set(k2, v2), Get(k1) returns (v1, true)
\* if k1 # k2 and (v2, true) if k1 = k2, and Get(k2) returns (v2, true).
C4_SetThenSet ==
    (last.op = "Set" /\ prev.op = "Set")
        => /\ Get(root, prev.key) =
                 IF prev.key # last.key THEN [Value |-> prev.val, ok |-> TRUE]
                 ELSE [Value |-> last.val, ok |-> TRUE]
           /\ Get(root, last.key) = [Value |-> last.val, ok |-> TRUE]

\* Two Sets in a row, the first key a proper prefix of the second, into a
\* trie that already held another key.
C4_Witness ==
    /\ last.op = "Set" /\ prev.op = "Set"
    /\ prev.key # last.key
    /\ IsPrefix(prev.key, last.key)
    /\ prev.val # last.val
    /\ Cardinality(Stored(root)) = 3

\* C5: after Set(k, v) followed by Delete(k), Get(k) returns ("", false).
C5_SetThenDelete ==
    (last.op = "Delete" /\ prev.op = "Set" /\ prev.key = last.key)
        => /\ ~last.panic
           /\ Get(root, last.key) = NotFound

\* C6: Delete(k) on a trie that does not contain k (the empty trie
\* included) returns normally and changes no result of Get.
C6_DeleteOfAbsentKeyIsNoOp ==
    (last.op = "Delete" /\ ~Get(last.pre, last.key).ok)
        => /\ ~last.panic
           /\ \A k \in Keys : Get(root, k) = Get(last.pre, k)

\* C7: the edit distances from the query to the keys Suggest returns, in
\* output order, are non-decreasing.
C7_EditDistancesNonDecreasing ==
    last.op = "Suggest"
        => \A i, j \in DOMAIN last.out :
              i < j => editDistance(last.out[i].Key, last.key)
                          <= editDistance(last.out[j].Key, last.key)

\* C7, amended: the least edit distances from each returned key to a prefix
\* of the query (the minimum of the NFA state at the key's node) are, in
\* output order, non-decreasing.
C7_PrefixDistancesNonDecreasing ==
    last.op = "Suggest"
        => \A i, j \in DOMAIN last.out :
              i < j => prefixDistance(last.out[i].Key, last.key)
                          <= prefixDistance(last.out[j].Key, last.key)

\* Suggest has returned three keys, at two different distances from a
\* prefix of the query, the first farther from the query than the second.
C7_Witness ==
    /\ last.op = "Suggest"
    /\ Len(last.out) = 3
    /\ prefixDistance(last.out[1].Key, last.key)
          < prefixDistance(last.out[3].Key, last.key)
    /\ editDistance(last.out[1].Key, last.key)
          > editDistance(last.out[2].Key, last.key)

\* C8: each of the four searches returns at most n entries.
C8_AtMostLimitEntries ==
    last.op \in SearchOps => Len(last.out) <= last.limit

\* A suffix expansion of the root, which holds three entries, with a limit
\* of one.
C8_Witness ==
    /\ last.op = "SuggestSuffixes"
    /\ last.key = <<>> /\ last.d = 0
    /\ last.limit = 1
    /\ Cardinality(Stored(root)) = 3
    /\ Len(last.out) = 1

\* What SuggestSuffixes is to return: the stored entries of which some
\* prefix is within distance d of the query.
SuffixesExpected(t, key, d) ==
    {e \in Stored(t) : \E x \in Prefixes(extractRunes(e.Key)) :
                          editDistanceHelper(x, extractRunes(key)) <= d}

\* C9: for every stored set, query, bound d >= 0 and limit >= |S|,
\* SuggestSuffixes returns, as a set, exactly the stored entries of which
\* some prefix is within edit distance d of the query.
C9_SuggestSuffixesReturnsExactlyTheMatches ==
    (last.op = "SuggestSuffixes" /\ last.limit >= Cardinality(Stored(root)))
        => /\ ~last.panic
           /\ Range(last.out) = SuffixesExpected(root, last.key, last.d)

\* The same for the small bounds d alone.
SuggestSuffixesExactForSmallD ==
    (last.op = "SuggestSuffixes" /\ last.limit >= Cardinality(Stored(root))
        /\ last.d <= MaxD)
        => /\ ~last.panic
           /\ Range(last.out) = SuffixesExpected(root, last.key, last.d)

\* What SuggestAfterExactPrefix is to return: the stored entries that start
\* with the first p runes of the query and are within distance d of it.
AfterPrefixExpected(t, key, p, d) ==
    {e \in Stored(t) :
        /\ IsPrefix(SubSeq(extractRunes(key), 1, p), extractRunes(e.Key))
        /\ editDistance(e.Key, key) <= d}

\* C10: for every stored set, query, prefix length p <= |q|, bound d >= 0
\* and limit >= |S|, SuggestAfterExactPrefix returns only keys that start
\* with the first p runes of q and are within distance d of q, and every
\* such key.
C10_AfterExactPrefixReturnsExactlyTheMatches ==
    (/\ last.op = "SuggestAfterExactPrefix"
     /\ last.p <= Len(extractRunes(last.key))
     /\ last.limit >= Cardinality(Stored(root)))
        => /\ ~last.panic
           /\ Range(last.out) = AfterPrefixExpected(root, last.key, last.p, last.d)

\* The same for the small bounds d alone.
AfterExactPrefixExactForSmallD ==
    (/\ last.op = "SuggestAfterExactPrefix"
     /\ last.p <= Len(extractRunes(last.key))
     /\ last.limit >= Cardinality(Stored(root))
     /\ last.d <= MaxD)
        => /\ ~last.panic
           /\ Range(last.out) = AfterPrefixExpected(root, last.key, last.p, last.d)

\* What SuggestSuffixesAfterExactPrefix is to return: the stored entries
\* that start with the first p runes of the query and of which some prefix
\* of p runes or more is within distance d of the query.
SuffixesAfterPrefixExpected(t, key, p, d) ==
    {e \in Stored(t) :
        /\ IsPrefix(SubSeq(extractRunes(key), 1, p), extractRunes(e.Key))
        /\ \E x \in Prefixes(extractRunes(e.Key)) :
              Len(x) >= p /\ editDistanceHelper(x, extractRunes(key)) <= d}

\* C11: for every stored set, query, prefix length p <= |q|, bound d >= 0
\* and limit >= |S|, SuggestSuffixesAfterExactPrefix returns, as a set,
\* exactly the stored keys that share the first p runes of q and have a
\* prefix of p runes or more within edit distance d of q.
C11_SuffixesAfterExactPrefixReturnsExactlyTheMatches ==
    (/\ last.op = "SuggestSuffixesAfterExactPrefix"
     /\ last.p <= Len(extractRunes(last.key))
     /\ last.limit >= Cardinality(Stored(root)))
        => /\ ~last.panic
           /\ Range(last.out) = SuffixesAfterPrefixExpected(root, last.key, last.p, last.d)

\* The same for the small bounds d alone.
SuffixesAfterExactPrefixExactForSmallD ==
    (/\ last.op = "SuggestSuffixesAfterExactPrefix"
     /\ last.p <= Len(extractRunes(last.key))
     /\ last.limit >= Cardinality(Stored(root))
     /\ last.d <= MaxD)
        => /\ ~last.panic
           /\ Range(last.out) = SuffixesAfterPrefixExpected(root, last.key, last.p, last.d)

AfterPrefixOps == {"SuggestAfterExactPrefix", "SuggestSuffixesAfterExactPrefix"}

\* C12: when p exceeds the number of runes of the query, the two searches
\* after an exact prefix return an empty result and do not fault, for every
\* trie.
C12_PrefixBeyondQueryReturnsEmpty ==
    (last.op \in AfterPrefixOps /\ last.p > Len(extractRunes(last.key)))
        => /\ ~last.panic
           /\ last.out = <<>>

\* A prefix length beyond the query never yields an entry: the call
\* panics or returns empty.
PrefixBeyondQueryYieldsNothing ==
    (last.op \in AfterPrefixOps /\ last.p > Len(extractRunes(last.key)))
        => last.out = <<>>

\* A call with p beyond the query that returned (empty) without a panic.
PrefixBeyondQueryReturned ==
    /\ last.op \in AfterPrefixOps
    /\ last.p > Len(extractRunes(last.key))
    /\ ~last.panic

\* The int8 quantities of a search with bound d, free of wrapping: the
\* window length 2*d+1, the start offset -2*d, the sentinel d+1.
windowFits(d) ==
    /\ Int8(Int8(2 * d) + 1) = 2 * d + 1
    /\ Int8(-2 * d) = -2 * d
    /\ Int8(d + 1) = d + 1

\* C14: for every bound d in 0..126 the int8 quantities of a search do not
\* wrap, and no search faults on an allocation or on an index.
C14_NoWrapUpTo126 ==
    (/\ last.op \in SearchOps
     /\ last.d \in 0..126
     /\ last.p <= Len(extractRunes(last.key)))
        => /\ windowFits(last.d)
           /\ ~last.panic

\* C15: when more than n stored keys are within distance d of q,
\* Suggest(q, d, n) returns n of them, and no stored key within distance d
\* that it omits is strictly closer to q than a key it returns.
C15_SuggestReturnsTheClosest ==
    (/\ last.op = "Suggest"
     /\ ~last.panic
     /\ Cardinality(SuggestExpected(root, last.key, last.d)) > last.limit)
        => /\ Len(last.out) = last.limit
           /\ \A e \in SuggestExpected(root, last.key, last.d) \ Range(last.out) :
                 \A i \in DOMAIN last.out :
                     editDistance(e.Key, last.key) >= editDistance(last.out[i].Key, last.key)

\* The same with the least distance to a prefix of q in place of the
\* distance to q.
SuggestReturnsTheClosestToAPrefix ==
    (/\ last.op = "Suggest"
     /\ ~last.panic
     /\ Cardinality(SuggestExpected(root, last.key, last.d)) > last.limit)
        => /\ Len(last.out) = last.limit
           /\ \A e \in SuggestExpected(root, last.key, last.d) \ Range(last.out) :
                 \A i \in DOMAIN last.out :
                     prefixDistance(e.Key, last.key)
                         >= prefixDistance(last.out[i].Key, last.key)

\* C13: Get, Set and Delete return normally, for every key (the empty key
\* included) and every trie reachable by Set and Delete (the empty trie
\* included).
C13_MapOperationsReturn ==
    last.op \in {"Get", "Set", "Delete"} => ~last.panic

\* Every node below n carries an entry or has a child.
RECURSIVE NoEmptyNodes(_)
NoEmptyNodes(n) ==
    \A r \in DOMAIN n.child :
        /\ n.child[r].data # NoData \/ DOMAIN n.child[r].child # {}
        /\ NoEmptyNodes(n.child[r])

RECURSIVE NodeCount(_)
NodeCount(n) ==
    IF DOMAIN n.child = {} THEN 1
    ELSE LET r == CHOOSE x \in DOMAIN n.child : TRUE
         IN  NodeCount(n.child[r]) + NodeCount([n EXCEPT !.child = MapDelete(n.child, r)])

\* C16: after any sequence of Set and Delete calls, every node other than
\* the root carries an entry or has at least one child.
C16_NoEmptyNodes == NoEmptyNodes(root)

\* A Delete of a stored key whose cleanup has removed a path of two nodes,
\* every other entry staying in the trie.
C16_Witness ==
    /\ last.op = "Delete" /\ ~last.panic
    /\ Get(last.pre, last.key).ok
    /\ NodeCount(last.pre) - NodeCount(root) >= 2
    /\ Stored(root) # {}
    /\ \A k \in Keys \ {last.key} : Get(root, k) = Get(last.pre, k)

\* C17: in every trie reachable from New() by Set and Delete calls the root
\* carries no entry.
C17_RootNeverTerminal == root.data = NoData

\* C17, amended: the root carries an entry exactly when the empty key is
\* stored, and the entry is that of the empty key.
C17_RootTerminalIffEmptyKeyStored ==
    /\ root.data # NoData <=> <<>> \in DOMAIN ref
    /\ root.data # NoData => root.data = [Key |-> <<>>, Value |-> ref[<<>>]]

\* The root carries an entry and has kept it through the Delete of another
\* stored key.
C17_Witness ==
    /\ root.data # NoData
    /\ last.op = "Delete" /\ last.key # <<>>
    /\ Get(last.pre, last.key).ok

\* C18: after the keys of a set S are inserted in any order and all deleted
\* in any order, every Delete having returned, Get(k) returns ("", false)
\* for every k in S, in the first cycle and in each cycle after it.
C18_InsertAllDeleteAll ==
    last.op = "Delete"
        => /\ ~last.panic
           /\ ref = EmptyMap => \A k \in prev.S : Get(root, k) = NotFound

\* The same for the sets S that do not hold the empty key.
InsertAllDeleteAllWithoutEmptyKey ==
    (last.op = "Delete" /\ <<>> \notin prev.S)
        => /\ ~last.panic
           /\ ref = EmptyMap => \A k \in prev.S : Get(root, k) = NotFound

\* The end of a cycle over three keys, one a prefix of another.
CycleOfThreeKeysDone ==
    /\ last.op = "Delete" /\ ref = EmptyMap
    /\ Cardinality(prev.S) = 3
    /\ <<>> \notin prev.S
    /\ \E x, y \in prev.S : x # y /\ IsPrefix(x, y)

\* C19: a frame sits in the stack whose index is the least cell of its NFA
\* state, and a transition never reports a minimum below the least cell of
\* the state it starts from, so that frames are pushed only to the stack
\* in process or a later one and are popped in non-decreasing order of
\* minimum.
C19_TransitionMinimumNeverDecreases ==
    last.op = "transition"
        => /\ ~last.panic
           /\ last.min >= last.pmin
           /\ last.min = MinOf({last.s.arr[j] : j \in DOMAIN last.s.arr})

\* The same for the small bounds d alone.
TransitionMinimumNeverDecreasesForSmallD ==
    (last.op = "transition" /\ last.d <= MaxD)
        => /\ ~last.panic
           /\ last.min >= last.pmin
           /\ last.min = MinOf({last.s.arr[j] : j \in DOMAIN last.s.arr})

\* C20: for every query, bound d >= 0 and word w, the state reached from
\* start() by the transitions on the runes of w accepts exactly when the
\* edit distance of w and the query is at most d.
C20_AcceptsIffWithinDistance ==
    last.op \in {"start", "transition"}
        => /\ ~last.panic
           /\ accepts(last.rs, last.d, last.s)
                 <=> editDistanceHelper(last.w, last.rs) <= last.d

\* The same for the small bounds d and the short queries alone.
AcceptsIffWithinDistanceForSmallD ==
    (/\ last.op \in {"start", "transition"}
     /\ last.d <= MaxD
     /\ Len(last.rs) <= MaxQueryLen)
        => /\ ~last.panic
           /\ accepts(last.rs, last.d, last.s)
                 <=> editDistanceHelper(last.w, last.rs) <= last.d

NfaOps == {"start", "transition"}

\* Some extension of w, by no more runes than the query has, is within
\* distance d of the query rs.
SomeExtensionWithin(w, rs, d) ==
    \E x \in SeqsUpTo(Alphabet, MaxQueryLen) : editDistanceHelper(w \o x, rs) <= d

\* C21: for every query, bound d and word w read, the minimum the last
\* transition reports is <= d exactly when some extension of w is within
\* edit distance d of the query.
C21_PruningIsExact ==
    (last.op = "transition" /\ Len(last.rs) <= MaxQueryLen)
        => /\ ~last.panic
           /\ last.min <= last.d <=> SomeExtensionWithin(last.w, last.rs, last.d)

\* The same for the small bounds d alone.
PruningIsExactForSmallD ==
    (last.op = "transition" /\ Len(last.rs) <= MaxQueryLen /\ last.d <= MaxD)
        => /\ ~last.panic
           /\ last.min <= last.d <=> SomeExtensionWithin(last.w, last.rs, last.d)

\* Some diagonal j has arr[j] <= |Q| - offset - j <= d, the difference
\* taken in the integers.
acceptsExact(rs, d, s) ==
    \E j \in DOMAIN s.arr :
        LET dist == Len(rs) - s.offset - j
        IN  dist <= d /\ dist >= s.arr[j]

\* C22: accepts returns true exactly when some diagonal j has
\* arr[j] <= |Q| - offset - j <= d with the exact integer difference, for
\* queries of every length.
C22_AcceptsUsesTheExactDifference ==
    (last.op \in NfaOps /\ ~last.panic /\ last.d <= MaxD)
        => accepts(last.rs, last.d, last.s) <=> acceptsExact(last.rs, last.d, last.s)

\* The same for the short queries alone.
AcceptsUsesTheExactDifferenceForShortQueries ==
    (last.op \in NfaOps /\ ~last.panic /\ last.d <= MaxD /\ Len(last.rs) <= MaxQueryLen)
        => accepts(last.rs, last.d, last.s) <=> acceptsExact(last.rs, last.d, last.s)

\* The shape of a state for the bound d after n transitions.
WellShaped(d, s, n) ==
    /\ DOMAIN s.arr = 0..(2 * d)
    /\ \A j \in DOMAIN s.arr : s.arr[j] \in 0..(d + 1)
    /\ s.offset = n - 2 * d

\* C23: every state reachable from start() by transitions has 2d+1 cells,
\* each in 0..d or equal to d+1, and an offset of -2d plus the number of
\* transitions taken; the start state has all cells d+1 but the rightmost,
\* which is 0.
C23_StatesAreWellShaped ==
    last.op \in NfaOps
        => /\ ~last.panic
           /\ WellShaped(last.d, last.s, Len(last.w))
           /\ last.op = "start"
                 => \A j \in DOMAIN last.s.arr :
                       last.s.arr[j] = IF j = 2 * last.d THEN 0 ELSE last.d + 1

\* The same for the small bounds d alone.
StatesAreWellShapedForSmallD ==
    (last.op \in NfaOps /\ last.d <= MaxD)
        => /\ ~last.panic
           /\ WellShaped(last.d, last.s, Len(last.w))
           /\ last.op = "start"
                 => \A j \in DOMAIN last.s.arr :
                       last.s.arr[j] = IF j = 2 * last.d THEN 0 ELSE last.d + 1

\* C30: in every transition from a reachable state every index is in
\* bounds: the jump index j + arr[j] lies in 0..3d+1, and the minimum by
\* which the traversal selects a stack lies in 0..d whenever a frame is
\* pushed (min < d+1).
C30_IndexesInBounds ==
    last.op = "transition"
        => /\ ~last.panic
           /\ ~transitionPanics(last.d, last.s)
           /\ last.min < Int8(last.d + 1) => last.min \in 0..last.d

\* The same for the small bounds d alone.
IndexesInBoundsForSmallD ==
    (last.op = "transition" /\ last.d <= MaxD)
        => /\ ~last.panic
           /\ ~transitionPanics(last.d, last.s)
           /\ last.min < Int8(last.d + 1) => last.min \in 0..last.d

\* The search op run on the trie t with the limit n and the enumeration
\* order given: what it returns.
runSearch(op, t, key, p, d, n, order) ==
    LET c == Len(extractRunes(key))
    IN  CASE op = "Suggest" -> Suggest(t, key, d, n, order)
          [] op = "SuggestSuffixes" -> SuggestSuffixes(t, key, d, n, order)
          [] op = "SuggestAfterExactPrefix" ->
                 SuggestAfterExactPrefix(t, key, p, d, n, order, c)
          [] op = "SuggestSuffixesAfterExactPrefix" ->
                 SuggestSuffixesAfterExactPrefix(t, key, p, d, n, order, c)

\* The first k elements of q, all of q if it has fewer.
Take(q, k) == SubSeq(q, 1, IF k < Len(q) THEN k ELSE Len(q))

\* C24: for a fixed trie, query, bound d and enumeration order, a search
\* with limit k returns the first k elements of what the same search
\* returns with any larger limit n, under both policies.
C24_LowerLimitTruncates ==
    (/\ last.op \in SearchOps /\ ~last.panic
     /\ last.p <= Len(extractRunes(last.key)))
        => /\ \E order \in Orders(root) :
                 last.out = runSearch(last.op, root, last.key, last.p, last.d,
                                      last.limit, order).results
           /\ \A order \in Orders(root), k \in 0..last.limit :
                 runSearch(last.op, root, last.key, last.p, last.d, k, order).results
                     = Take(runSearch(last.op, root, last.key, last.p, last.d,
                                      last.limit, order).results, k)

\* A suffix expansion that has returned three entries for a query of one
\* rune or more: a lower limit cuts the expansion short.
C24_Witness ==
    /\ last.op = "SuggestSuffixes"
    /\ last.limit = 3 /\ Len(last.out) = 3
    /\ last.d = 1
    /\ Len(extractRunes(last.key)) >= 1

\* C25: no result of the four searches holds the same key twice.
C25_NoKeyTwice ==
    last.op \in SearchOps
        => \A i, j \in DOMAIN last.out :
              i # j => last.out[i].Key # last.out[j].Key

\* A suffix expansion from the root, which is accepted at distance 1 of the
\* query and holds an entry, as two nodes below it do.
C25_Witness ==
    /\ last.op = "SuggestSuffixes"
    /\ last.d = 1 /\ Len(extractRunes(last.key)) = 1
    /\ root.data # NoData
    /\ Len(last.out) = 3

ReadOps == SearchOps \cup {"Get"}

GetAsResult(t, key) ==
    IF Get(t, key).ok THEN <<[Key |-> key, Value |-> Get(t, key).Value]>> ELSE <<>>

\* Suggest(q, 0, n) with n >= 1 agrees with Get(q) for the short queries.
BoundZeroAgreesWithGetForShortQueries ==
    (last.op = "Suggest" /\ last.d = 0 /\ last.limit >= 1)
        => /\ ~last.panic
           /\ last.out = GetAsResult(root, last.key)

\* What the search id returns when it runs alone.
Alone(id) ==
    suggest(last[id].policy, root, last[id].rs, last[id].d, last[id].limit,
            <<>>, last[id].order)

\* C27: every search terminates: for any trie, query, d >= 0 and
\* limit >= 0 the operation eventually returns.
C27_EverySearchReturns == <>(last[1].pc = "returned")

\* The steps a search spends on the sub-trie of n once a frame of n is on
\* a stack: the pop, the two loops of transition for each child, the turn
\* that finds no child left, and the steps of each child's sub-trie.
RECURSIVE StepsOfChildren(_, _)
RECURSIVE StepsOf(_)
StepsOfChildren(n, rs) ==
    IF rs = {} THEN 0
    ELSE LET r == CHOOSE x \in rs : TRUE
         IN  2 + StepsOf(n.child[r]) + StepsOfChildren(n, rs \ {r})

StepsOf(n) == 2 + StepsOfChildren(n, DOMAIN n.child)

RECURSIVE StepsOfFrames(_)
StepsOfFrames(fs) ==
    IF Len(fs) = 0 THEN 0
    ELSE StepsOf(fs[Len(fs)].n) + StepsOfFrames(SubSeq(fs, 1, Len(fs) - 1))

RECURSIVE StepsOfStacks(_, _)
StepsOfStacks(stacks, i) ==
    IF i \notin DOMAIN stacks THEN 0
    ELSE StepsOfFrames(stacks[i]) + StepsOfStacks(stacks, i + 1)

\* A bound on the steps the search me has left on the trie t: each node is
\* counted once, and the outer index i is counted up to d + 1.
StepsLeft(me, t) ==
    LET rest(k) == StepsOfChildren(me.f.n, {me.rng[j] : j \in k..Len(me.rng)})
        outer   == StepsOfStacks(me.stacks, 0) + (me.d + 1 - me.i) + 1
    IN  CASE me.pc = "start" -> 1 + StepsOf(t) + (me.d + 1) + 1
          [] me.pc = "loop"  -> outer
          [] me.pc = "fill"  -> outer + 1 + rest(me.k)
          [] me.pc = "use"   -> outer + rest(me.k)
          [] OTHER           -> 0

\* With a small bound d each step of a search leaves fewer steps to take:
\* every node is processed at most once and the outer index only advances.
SearchStepsUseUpTheStepsLeft ==
    [][\A id \in Searchers :
          (last'[id] # last[id] /\ last[id].d <= MaxD)
              => /\ StepsLeft(last'[id], root') < StepsLeft(last[id], root)
                 /\ StepsLeft(last'[id], root') >= 0
                 /\ last'[id].i >= last[id].i \/ last'[id].pc = "returned"]_vars

\* With a small bound d a search does not panic: until it has returned it
\* is at one of the four positions, at each of which its step is enabled.
SearchesWithSmallDAreNeverStuck ==
    last[1].d <= MaxD
        => last[1].pc \in {"start", "loop", "fill", "use", "returned"}

\* C28: for every reachable trie, key q and limit n >= 1, Suggest(q, 0, n)
\* returns the single entry (q, v) when Get(q) = (v, true) and no entry
\* when Get(q) = ("", false).
C28_BoundZeroAgreesWithGet ==
    \A id \in Searchers :
        (/\ last[id].pc = "returned" /\ last[id].policy = "exact"
         /\ last[id].d = 0 /\ last[id].limit >= 1)
            => last[id].out =
                  IF GetNode(root, last[id].rs).ok
                  THEN GetAsResult(root, EncodeRunes(last[id].rs)) ELSE <<>>

\* C29: searches that run at once on a trie that no Set or Delete touches
\* do not interfere: under every interleaving of their steps each returns
\* what it returns when it runs alone (and panics only if it panics alone).
C29_ConcurrentSearchesDoNotInterfere ==
    \A id \in Searchers :
        /\ last[id].pc = "returned"
              => ~Alone(id).panic /\ last[id].out = Alone(id).results
        /\ last[id].pc = "panicked" => Alone(id).panic

\* The first search has returned two entries or more while the second is
\* between the two loops of a transition.
C29_Witness ==
    /\ last[1].pc = "returned"
    /\ Len(last[1].out) >= 2
    /\ last[2].pc = "use"

=============================================================================
